---- MODULE Spec2Model ----
(***************************************************************************)
(* AIyos backend: the AI request layer (quota admission, usage counters,   *)
(* provider calls), the automation workflows (toggle, manual execution)    *)
(* and the per-user scoping of the REST resources, as state machines over  *)
(* the database rows the handlers read and write.                          *)
(*                                                                         *)
(* Every handler is one action per database round trip it makes with       *)
(* state another request can observe in between; the rows a request holds  *)
(* in memory (request.user, the AIUsageQuota instance, the template) are   *)
(* per-process copies, written back by save().                             *)
(***************************************************************************)
EXTENDS Integers, Sequences, FiniteSets, TLC

(***************************************************************************)
(* Bounds of the model                                                     *)
(***************************************************************************)
\* concurrent request workers serving the same user
NumProcs == 2
\* requests started in one behaviour
MaxRequests == 2
\* token usage the provider reports for one completion
PromptTokens == 120
CompletionTokens == 80
\* AIProvider.cost_per_input_token / cost_per_output_token, in micro-USD
CostPerInputToken == 1
CostPerOutputToken == 2

(***************************************************************************)
(* Program constants                                                       *)
(***************************************************************************)
StarterLimit == 1000
BusinessLimit == 5000
ProLimit == 99999
DefaultLimit == 1000
\* max_tokens = ai_usage_limit * 1000
TokensPerRequest == 1000
\* max_cost_usd, Decimal('10.00') / Decimal('50.00'), in micro-USD
MaxCostStarter == 10000000
MaxCostOther == 50000000

HTTP_200_OK == 200
HTTP_201_CREATED == 201
HTTP_202_ACCEPTED == 202
HTTP_204_NO_CONTENT == 204
HTTP_400_BAD_REQUEST == 400
HTTP_402_PAYMENT_REQUIRED == 402
HTTP_404_NOT_FOUND == 404

Procs == 1 .. NumProcs
Users == {"u1", "u2"}
\* User.SUBSCRIPTION_CHOICES, and a value outside the choices
SUBSCRIPTION_CHOICES == {"starter", "business", "pro"}
Tiers == SUBSCRIPTION_CHOICES \cup {"legacy"}
None == "None"

VARIABLES
    users,          \* auth User rows: [subscription_tier, monthly_ai_calls]
    quota,          \* the AIUsageQuota row of u1 for the current month: <<row>>, or <<>>
    aiModels,       \* AIModel rows in primary-key order
    aiTemplates,    \* AITemplate rows by id
    aiRequests,     \* AIRequest rows in creation order
    proc,           \* the request workers: position and in-memory copies
    started,        \* requests started so far
    providerCalls,  \* chat.completions.create calls made so far
    userSaves,      \* user.save(update_fields=['monthly_ai_calls']) calls made
    initial,        \* the counters as they were when the behaviour began
    workflows,      \* AutomationWorkflow rows by id, or None when deleted
    actions,        \* AutomationAction rows by id, or None
    executions,     \* WorkflowExecution rows in creation order
    integrations,   \* Integration rows by id, or None
    integrationLogs,\* IntegrationLog rows in creation order
    templates,      \* AutomationTemplate rows by id
    app,            \* the Django app whose endpoints this behaviour exercises
    resp,           \* the last REST response: operation, caller, target, status, body
    mquery,         \* get_available_model: the arguments of the call
    mresult         \* get_available_model: what the call gave

aiVars == <<users, quota, aiModels, aiTemplates, aiRequests, proc, started,
            providerCalls, userSaves, initial>>
restVars == <<workflows, actions, executions, integrations, integrationLogs, templates,
              app, resp>>
modelVars == <<mquery, mresult>>
vars == <<users, quota, aiModels, aiTemplates, aiRequests, proc, started,
          providerCalls, userSaves, initial, workflows, actions, executions,
          integrations, integrationLogs, templates, app, resp, mquery, mresult>>

(***************************************************************************)
(* authentication/models.py: User                                          *)
(***************************************************************************)
ai_usage_limit(tier) ==
    CASE tier = "starter" -> StarterLimit
      [] tier = "business" -> BusinessLimit
      [] tier = "pro" -> ProLimit
      [] OTHER -> DefaultLimit

can_use_ai_inclusive(tier, monthly_ai_calls) == monthly_ai_calls <= ai_usage_limit(tier)

can_use_ai(tier, monthly_ai_calls) == monthly_ai_calls < ai_usage_limit(tier)

(***************************************************************************)
(* ai_services/services.py: OpenRouterService.get_available_model          *)
(***************************************************************************)
model_priorities(tier) ==
    CASE tier = "business" -> <<"openai/gpt-4o-mini", "anthropic/claude-3.5-haiku">>
      [] tier = "pro" -> <<"anthropic/claude-3.5-sonnet", "openai/gpt-4o",
                           "deepseek/deepseek-r1">>
      [] OTHER -> <<"deepseek/deepseek-r1", "meta-llama/llama-3.2-3b-instruct:free">>

\* the outcomes of the call besides a row's primary key
NoModel == 0
MultipleObjectsReturned == -1

\* AIModel.objects.get(model_id=..., model_type=..., is_active=True): the keys matching
ModelsById(models, model_id, model_type) ==
    {i \in DOMAIN models : /\ models[i].model_id = model_id
                           /\ models[i].model_type = model_type
                           /\ models[i].is_active}

\* AIModel.objects.filter(model_type=..., is_active=True,
\*                        min_subscription_tier__in=['starter', tier])
FallbackModels(models, tier, model_type) ==
    {i \in DOMAIN models : /\ models[i].model_type = model_type
                           /\ models[i].is_active
                           /\ models[i].min_subscription_tier \in {"starter", tier}}

\* QuerySet.first() of an unordered queryset: the row with the least primary key
First(S) == IF S = {} THEN NoModel ELSE CHOOSE i \in S : \A j \in S : i <= j

RECURSIVE PreferredModel(_, _, _, _)
PreferredModel(models, preferred, model_type, fallback) ==
    IF preferred = <<>> THEN fallback
    ELSE LET found == ModelsById(models, Head(preferred), model_type)
         IN  IF Cardinality(found) = 1 THEN CHOOSE i \in found : TRUE
             ELSE IF Cardinality(found) > 1 THEN MultipleObjectsReturned
             ELSE PreferredModel(models, Tail(preferred), model_type, fallback)

get_available_model(models, tier, model_type) ==
    PreferredModel(models, model_priorities(tier), model_type,
                   First(FallbackModels(models, tier, model_type)))

(***************************************************************************)
(* ai_services/models.py: AIUsageQuota                                     *)
(***************************************************************************)
\* The row get_or_create inserts (services.py, defaults=...).  cost_is_decimal
\* tells whether current_cost_usd holds a Decimal (a row read from the
\* database) or the float field default 0.0 (the instance just created).
NewQuota(tier) ==
    [max_requests |-> ai_usage_limit(tier),
     max_tokens |-> ai_usage_limit(tier) * TokensPerRequest,
     max_cost |-> IF tier = "starter" THEN MaxCostStarter ELSE MaxCostOther,
     current_requests |-> 0,
     current_tokens |-> 0,
     current_cost |-> 0,
     is_exceeded |-> FALSE]

QuotaCanUse_ignoring_flag(q) == q.current_requests < q.max_requests

\* check_usage_quota: 'can_use'
QuotaCanUse(q) == ~q.is_exceeded /\ q.current_requests < q.max_requests

\* _calculate_cost, in micro-USD
calculate_cost(usage) ==
    CostPerInputToken * usage.prompt_tokens + CostPerOutputToken * usage.completion_tokens

\* update_usage: Decimal += float raises TypeError before anything is saved
UpdateRaises(cost_is_decimal) == cost_is_decimal

\* update_usage(requests, tokens, cost_usd) on the in-memory instance q
update_usage(q, requests, tokens, cost) ==
    LET r == q.current_requests + requests
        t == q.current_tokens + tokens
        c == q.current_cost + cost
    IN  [q EXCEPT !.current_requests = r,
                  !.current_tokens = t,
                  !.current_cost = c,
                  !.is_exceeded = (r >= q.max_requests \/ t >= q.max_tokens
                                   \/ c >= q.max_cost)]

\* no row / no usage yet
NoQuota == <<>>
NoUsage == [prompt_tokens |-> 0, completion_tokens |-> 0, total_tokens |-> 0]

\* response.usage of a completion
Usages == {[prompt_tokens |-> PromptTokens, completion_tokens |-> CompletionTokens,
            total_tokens |-> PromptTokens + CompletionTokens]}

(***************************************************************************)
(* The request workers.  All of them serve requests of user u1.            *)
(***************************************************************************)
Caller == "u1"

IdleProc ==
    [pc |-> "idle", kind |-> None,
     monthly_ai_calls |-> 0,        \* request.user.monthly_ai_calls
     loaded_calls |-> 0,            \* its value when authentication loaded the row
     q |-> NoQuota,                 \* quota_check['quota']
     cost_is_decimal |-> FALSE,     \* type of q.current_cost_usd
     request |-> 0,                 \* ai_request: index in aiRequests, 0 = none made
     calls |-> 0,                   \* provider calls of this invocation
     outcome |-> None,              \* what the provider call did
     usage |-> NoUsage,             \* response.usage
     template |-> 0,                \* custom_ai_request: template id
     usage_count |-> 0,             \* custom_ai_request: template.usage_count, as loaded
     valid |-> FALSE,               \* the payload passed serializer validation
     status |-> 0,                  \* HTTP status of the response, 0 = none yet
     success |-> None]              \* result['success'] of the response body

NewAIRequest(request_type, model) ==
    [user |-> Caller, request_type |-> request_type, status |-> "processing",
     model |-> model, retry_count |-> 0, completed_at |-> FALSE]

\* the response leaves; the instances the handler held are dropped with its frame
Respond(w, status, success) ==
    [w EXCEPT !.pc = "done", !.status = status, !.success = success,
              !.q = NoQuota, !.cost_is_decimal = FALSE, !.usage = NoUsage,
              !.usage_count = 0]

\* a worker takes a request when it is not inside one
Free(p) == proc[p].pc \in {"idle", "done"}

\* serializer.is_valid(raise_exception=True), then "if not request.user.can_use_ai()".
\* request.user is the row as authentication loaded it.
ViewGate(w, valid, after) ==
    LET u == users[Caller]
        loaded == [w EXCEPT !.monthly_ai_calls = u.monthly_ai_calls,
                            !.loaded_calls = u.monthly_ai_calls, !.valid = valid]
    IN  IF ~valid THEN Respond(loaded, HTTP_400_BAD_REQUEST, None)
        ELSE IF ~can_use_ai(u.subscription_tier, u.monthly_ai_calls)
             THEN Respond(loaded, HTTP_402_PAYMENT_REQUIRED, None)
        ELSE [loaded EXCEPT !.pc = after]

BeginRequest(p, kind, valid, after) ==
    /\ Free(p)
    /\ started < MaxRequests
    /\ started' = started + 1
    /\ proc' = [proc EXCEPT ![p] = ViewGate([IdleProc EXCEPT !.kind = kind], valid, after)]
    /\ UNCHANGED <<users, quota, aiModels, aiTemplates, aiRequests, providerCalls,
                   userSaves, initial, restVars, modelVars>>

\* views.py: email_to_task, up to the call of process_email_to_task
email_to_task(p, valid) == BeginRequest(p, "email_to_task", valid, "admit")

\* views.py: generate_social_content, up to generate_filipino_social_content
generate_social_content(p, valid) == BeginRequest(p, "content_generation", valid, "admit")

\* views.py: analyze_text, whole: the gate, then a mock answer
analyze_text(p, valid) ==
    /\ Free(p)
    /\ started < MaxRequests
    /\ started' = started + 1
    /\ LET w == ViewGate([IdleProc EXCEPT !.kind = "text_analysis"], valid, "mock")
       IN  proc' = [proc EXCEPT ![p] =
                        IF w.pc = "mock" THEN Respond(w, HTTP_200_OK, TRUE) ELSE w]
    /\ UNCHANGED <<users, quota, aiModels, aiTemplates, aiRequests, providerCalls,
                   userSaves, initial, restVars, modelVars>>

\* services.py: process_email_to_task / generate_filipino_social_content, from the
\* quota check to AIRequest.objects.create.  An exception here reaches the view's
\* "except Exception", which answers 400.
ServiceAdmit(p) ==
    LET w == proc[p]
        tier == users[Caller].subscription_tier
        created == quota = NoQuota
        q == IF created THEN NewQuota(tier) ELSE quota[1]
        model == get_available_model(aiModels, tier, "chat")
        checked == [w EXCEPT !.q = <<q>>, !.cost_is_decimal = ~created]
    IN  /\ w.pc = "admit"
        /\ quota' = <<q>>
        /\ IF ~QuotaCanUse(q) \/ model = NoModel \/ model = MultipleObjectsReturned
           THEN /\ proc' = [proc EXCEPT ![p] = Respond(checked, HTTP_400_BAD_REQUEST, None)]
                /\ UNCHANGED aiRequests
           ELSE /\ aiRequests' = Append(aiRequests, NewAIRequest(w.kind, model))
                /\ proc' = [proc EXCEPT ![p] =
                                [checked EXCEPT !.pc = "call",
                                                !.request = Len(aiRequests) + 1]]
        /\ UNCHANGED <<users, aiModels, aiTemplates, started, providerCalls,
                       userSaves, initial, restVars, modelVars>>

\* the "except Exception as e" of the service: the request row is marked failed and
\* the service returns {'success': False}, which the view wraps in Response(result)
ServiceFailed(w) == Respond(w, HTTP_200_OK, FALSE)

MarkFailed(rows, i) == [rows EXCEPT ![i].status = "failed", ![i].completed_at = TRUE]

MarkCompleted(rows, i) == [rows EXCEPT ![i].status = "completed", ![i].completed_at = TRUE]

\* a provider call that is tried again when it fails
ProviderCall_retrying(p, outcome, usage) ==
    LET w == [proc[p] EXCEPT !.calls = @ + 1, !.outcome = outcome]
    IN  /\ proc[p].pc = "call"
        /\ providerCalls' = providerCalls + 1
        /\ IF outcome = "ok"
           THEN /\ aiRequests' = MarkCompleted(aiRequests, w.request)
                /\ proc' = [proc EXCEPT ![p] = [w EXCEPT !.pc = "save_user", !.usage = usage]]
           ELSE IF aiRequests[w.request].retry_count = 0
           THEN /\ aiRequests' = [aiRequests EXCEPT ![w.request].retry_count = 1]
                /\ proc' = [proc EXCEPT ![p] = w]
           ELSE /\ aiRequests' = MarkFailed(aiRequests, w.request)
                /\ proc' = [proc EXCEPT ![p] = ServiceFailed(w)]
        /\ UNCHANGED <<users, quota, aiModels, aiTemplates, started, userSaves, initial,
                       restVars, modelVars>>

\* services.py: client.chat.completions.create and json.loads of the answer, then
\* either ai_request.save() with status 'completed' or the except branch
ProviderCall(p, outcome, usage) ==
    LET w == [proc[p] EXCEPT !.calls = @ + 1, !.outcome = outcome]
    IN  /\ proc[p].pc = "call"
        /\ providerCalls' = providerCalls + 1
        /\ IF outcome = "ok"
           THEN /\ aiRequests' = MarkCompleted(aiRequests, w.request)
                /\ proc' = [proc EXCEPT ![p] = [w EXCEPT !.pc = "save_user", !.usage = usage]]
           ELSE /\ aiRequests' = MarkFailed(aiRequests, w.request)
                /\ proc' = [proc EXCEPT ![p] = ServiceFailed(w)]
        /\ UNCHANGED <<users, quota, aiModels, aiTemplates, started, userSaves, initial, restVars, modelVars>>

\* the increment without the save()
SaveUser_unsaved(p) ==
    LET w == proc[p]
    IN  /\ w.pc = "save_user"
        /\ userSaves' = userSaves + 1
        /\ proc' = [proc EXCEPT ![p] = [w EXCEPT !.pc = "update_quota",
                                                 !.monthly_ai_calls = @ + 1]]
        /\ UNCHANGED <<users, quota, aiModels, aiTemplates, aiRequests, started,
                       providerCalls, initial, restVars, modelVars>>

\* services.py: self.user.monthly_ai_calls += 1; self.user.save(update_fields=[...])
SaveUser(p) ==
    LET w == proc[p]
        n == w.monthly_ai_calls + 1
    IN  /\ w.pc = "save_user"
        /\ users' = [users EXCEPT ![Caller].monthly_ai_calls = n]
        /\ userSaves' = userSaves + 1
        /\ proc' = [proc EXCEPT ![p] = [w EXCEPT !.pc = "update_quota",
                                                 !.monthly_ai_calls = n]]
        /\ UNCHANGED <<quota, aiModels, aiTemplates, aiRequests, started,
                       providerCalls, initial, restVars, modelVars>>

\* services.py: quota_check['quota'].update_usage(...), then the return, or the
\* except branch when update_usage raises
UpdateQuota(p) ==
    LET w == proc[p]
    IN  /\ w.pc = "update_quota"
        /\ IF UpdateRaises(w.cost_is_decimal)
           THEN /\ aiRequests' = MarkFailed(aiRequests, w.request)
                /\ proc' = [proc EXCEPT ![p] = ServiceFailed(w)]
                /\ UNCHANGED quota
           ELSE /\ quota' = <<update_usage(w.q[1], 1, w.usage.total_tokens,
                                           calculate_cost(w.usage))>>
                /\ proc' = [proc EXCEPT ![p] =
                                Respond(w, HTTP_200_OK, TRUE)]
                /\ UNCHANGED aiRequests
        /\ UNCHANGED <<users, aiModels, aiTemplates, started, providerCalls,
                       userSaves, initial, restVars, modelVars>>

(***************************************************************************)
(* views.py: custom_ai_request                                             *)
(***************************************************************************)
\* ids a payload may name: the stored templates and one that does not exist
TemplateIds == DOMAIN aiTemplates
TemplateInputs == TemplateIds \cup {Cardinality(TemplateIds) + 1}

\* serializers.py: CustomAIRequestSerializer.validate_template_id
validate_template_id(template_id, tier) ==
    /\ template_id \in TemplateIds
    /\ aiTemplates[template_id].is_active
    /\ ~(aiTemplates[template_id].is_premium /\ tier = "starter")

\* validation and the usage gate
custom_ai_request(p, template_id) ==
    /\ Free(p)
    /\ started < MaxRequests
    /\ started' = started + 1
    /\ LET valid == validate_template_id(template_id, users[Caller].subscription_tier)
           w == [IdleProc EXCEPT !.kind = "custom", !.template = template_id]
       IN  proc' = [proc EXCEPT ![p] = ViewGate(w, valid, "custom_create")]
    /\ UNCHANGED <<users, quota, aiModels, aiTemplates, aiRequests, providerCalls,
                   userSaves, initial, restVars, modelVars>>

\* AITemplate.objects.get, the prompt formatting and AIRequest.objects.create.
\* format_ok: user_prompt_template.format(**input_variables) finds its variables.
\* AIRequest.model is not nullable: creating the row with model=None raises.
CustomCreate(p, format_ok) ==
    LET w == proc[p]
        model == get_available_model(aiModels, users[Caller].subscription_tier, "chat")
    IN  /\ w.pc = "custom_create"
        /\ IF ~format_ok \/ model = NoModel \/ model = MultipleObjectsReturned
           THEN /\ proc' = [proc EXCEPT ![p] = Respond(w, HTTP_400_BAD_REQUEST, None)]
                /\ UNCHANGED aiRequests
           ELSE /\ aiRequests' = Append(aiRequests, NewAIRequest("custom", model))
                /\ proc' = [proc EXCEPT ![p] =
                                [w EXCEPT !.pc = "custom_increment",
                                          !.request = Len(aiRequests) + 1,
                                          !.usage_count = aiTemplates[w.template].usage_count]]
        /\ UNCHANGED <<users, quota, aiModels, aiTemplates, started, providerCalls,
                       userSaves, initial, restVars, modelVars>>

\* models.py: AITemplate.increment_usage on the instance loaded above, then the
\* mock answer
CustomIncrement(p) ==
    LET w == proc[p]
    IN  /\ w.pc = "custom_increment"
        /\ aiTemplates' = [aiTemplates EXCEPT ![w.template].usage_count = w.usage_count + 1]
        /\ proc' = [proc EXCEPT ![p] = Respond(w, HTTP_200_OK, TRUE)]
        /\ UNCHANGED <<users, quota, aiModels, aiRequests, started, providerCalls,
                       userSaves, initial, restVars, modelVars>>

(***************************************************************************)
(* The AI request layer as a system                                        *)
(***************************************************************************)
AIModelRow(model_id, model_type, is_active, tier) ==
    [model_id |-> model_id, model_type |-> model_type, is_active |-> is_active,
     min_subscription_tier |-> tier]

\* a quota row left by earlier requests of the month
SeededQuota(tier, used, exceeded) ==
    [NewQuota(tier) EXCEPT !.current_requests = used, !.is_exceeded = exceeded]

NoResponse == [op |-> None, caller |-> None, target |-> 0, sub |-> 0, status |-> 0, body |-> {}]

NoQuery == [tier |-> None, model_type |-> None]

\* a quota row whose token budget, not its request budget, is used up
TokensExceededQuota(tier) ==
    [NewQuota(tier) EXCEPT !.current_requests = 1,
                           !.current_tokens = ai_usage_limit(tier) * TokensPerRequest,
                           !.is_exceeded = TRUE]

RestIdle ==
    /\ workflows = <<>>
    /\ actions = <<>>
    /\ executions = <<>>
    /\ integrations = <<>>
    /\ integrationLogs = <<>>
    /\ templates = <<>>
    /\ app = None
    /\ resp = NoResponse

ModelIdle ==
    /\ mquery = NoQuery
    /\ mresult = NoModel

\* everything but the user's row and quota
InitAICommon ==
    /\ aiTemplates = <<[is_active |-> TRUE, is_premium |-> FALSE, usage_count |-> 0],
                       [is_active |-> TRUE, is_premium |-> TRUE, usage_count |-> 0]>>
    /\ aiRequests = <<>>
    /\ proc = [p \in Procs |-> IdleProc]
    /\ started = 0
    /\ providerCalls = 0
    /\ userSaves = 0
    /\ initial = [monthly_ai_calls |-> users[Caller].monthly_ai_calls, quota |-> quota]
    /\ RestIdle
    /\ ModelIdle

UserRows(tier, n) ==
    [u \in Users |-> IF u = Caller
                     THEN [subscription_tier |-> tier, monthly_ai_calls |-> n]
                     ELSE [subscription_tier |-> "starter", monthly_ai_calls |-> 0]]

InitAI ==
    /\ \E tier \in {"starter", "business"} :
         /\ \E n \in {0, ai_usage_limit(tier) - 1} : users = UserRows(tier, n)
         /\ quota \in {NoQuota,
                       <<SeededQuota(tier, ai_usage_limit(tier) - 1, FALSE)>>,
                       <<SeededQuota(tier, ai_usage_limit(tier), TRUE)>>,
                       <<TokensExceededQuota(tier)>>}
    /\ aiModels \in {<<>>, <<AIModelRow("openai/gpt-4o", "chat", TRUE, "starter")>>}
    /\ InitAICommon

\* the tracked endpoints, which call the provider
NextAI ==
    \E p \in Procs :
        \/ \E valid \in BOOLEAN : email_to_task(p, valid)
        \/ \E valid \in BOOLEAN : generate_social_content(p, valid)
        \/ ServiceAdmit(p)
        \/ \E o \in {"ok", "api_error", "parse_error"}, u \in Usages : ProviderCall(p, o, u)
        \/ SaveUser(p)
        \/ UpdateQuota(p)

SpecAI == InitAI /\ [][NextAI]_vars

\* all four AI endpoints, for users of every tier at and around their limit
InitGate ==
    /\ \E tier \in Tiers :
         \E n \in {ai_usage_limit(tier) - 1, ai_usage_limit(tier), ai_usage_limit(tier) + 1} :
            users = UserRows(tier, n)
    /\ quota = NoQuota
    /\ aiModels = <<AIModelRow("openai/gpt-4o", "chat", TRUE, "starter")>>
    /\ InitAICommon

NextGate ==
    \E p \in Procs :
        \/ \E valid \in BOOLEAN : email_to_task(p, valid)
        \/ \E valid \in BOOLEAN : generate_social_content(p, valid)
        \/ \E valid \in BOOLEAN : analyze_text(p, valid)
        \/ \E t \in TemplateInputs : custom_ai_request(p, t)
        \/ ServiceAdmit(p)
        \/ \E o \in {"ok", "api_error", "parse_error"}, u \in Usages : ProviderCall(p, o, u)
        \/ SaveUser(p)
        \/ UpdateQuota(p)
        \/ \E f \in BOOLEAN : CustomCreate(p, f)
        \/ CustomIncrement(p)

SpecGate == InitGate /\ [][NextGate]_vars

(***************************************************************************)
(* Properties of the AI request layer                                      *)
(***************************************************************************)
Failures == {"api_error", "parse_error"}
Admitted(p) == proc[p].pc \in {"call", "save_user", "update_quota"}

\* C1: quota admission is decided on the copy of the quota row each request read,
\* and on nothing else: a request is past check_usage_quota only if its own copy
\* was not flagged exceeded and counted fewer requests than max_requests.  Nothing
\* orders the check of one request after the update of another (C1_Witness).
C1_AdmissionOnSnapshot ==
    \A p \in Procs :
        Admitted(p) =>
            /\ proc[p].q # NoQuota
            /\ ~proc[p].q[1].is_exceeded
            /\ proc[p].q[1].current_requests < proc[p].q[1].max_requests

\* two requests of the user are both past the check, on copies that each show one
\* request left, and the provider calls of the period exceed max_requests
C1_Witness ==
    /\ initial.quota # NoQuota
    /\ \E p, r \in Procs :
         /\ p # r
         /\ proc[p].pc = "update_quota" /\ proc[r].pc = "update_quota"
         /\ proc[p].q[1].max_requests - proc[p].q[1].current_requests = 1
         /\ proc[r].q[1].max_requests - proc[r].q[1].current_requests = 1
         /\ quota[1].max_requests - quota[1].current_requests = 1
         /\ initial.quota[1].current_requests + providerCalls > quota[1].max_requests

StoredCalls == users[Caller].monthly_ai_calls

C3_ErrorsAreHttpErrors ==
    \A p \in Procs :
        (proc[p].pc = "done" /\ proc[p].outcome \in Failures) =>
            (proc[p].status >= 400 /\ proc[p].status <= 599)

\* C4: an invocation makes at most one provider call; a failed call leaves the
\* request row 'failed' with completed_at set in the same step and the invocation
\* answered; no row ever has a retry_count other than 0.
C4_NoRetry ==
    /\ \A p \in Procs :
         /\ proc[p].calls <= 1
         /\ proc[p].outcome \in Failures =>
              /\ proc[p].pc = "done"
              /\ aiRequests[proc[p].request].status = "failed"
              /\ aiRequests[proc[p].request].completed_at
    /\ \A i \in DOMAIN aiRequests : aiRequests[i].retry_count = 0
    /\ providerCalls <= Len(aiRequests)

\* a provider call has failed
C4_Witness ==
    \E p \in Procs : proc[p].outcome = "api_error" /\ proc[p].calls = 1

\* the tier limits written out: 1000, 5000, 99999, and 1000 for any other tier
C8_Limit(tier) ==
    CASE tier = "starter" -> 1000
      [] tier = "business" -> 5000
      [] tier = "pro" -> 99999
      [] OTHER -> 1000

\* C8: an AI endpoint given a valid payload answers 402 exactly when the caller's
\* monthly_ai_calls, as loaded with the request, is at or above the tier limit,
\* and an invocation answered 402 has created no AIRequest and made no provider call.
C8_UsageGate ==
    \A p \in Procs :
        (proc[p].pc = "done" /\ proc[p].valid) =>
            /\ (proc[p].status = 402) <=>
                   (proc[p].loaded_calls >= C8_Limit(users[Caller].subscription_tier))
            /\ proc[p].status = 402 => (proc[p].request = 0 /\ proc[p].calls = 0)

\* every one of the four endpoints has refused a valid payload with 402 at some
\* point of this behaviour: here, the last of them to do so
C8_Witness ==
    /\ \E p \in Procs : /\ proc[p].pc = "done" /\ proc[p].valid
                        /\ proc[p].status = 402 /\ proc[p].kind = "custom"
    /\ \E p \in Procs : /\ proc[p].pc = "done" /\ proc[p].valid
                        /\ proc[p].status = 402 /\ proc[p].kind = "text_analysis"

(***************************************************************************)
(* Model selection on its own: get_available_model applied to a catalogue  *)
(* of AIModel rows, for every subscription tier and model type.            *)
(***************************************************************************)
MaxModels == 2

ModelIds == {"deepseek/deepseek-r1", "openai/gpt-4o-mini", "vendor/other"}
ModelTypes == {"chat", "embedding"}

AIModelRows ==
    {AIModelRow(id, type, active, tier) :
        id \in ModelIds, type \in ModelTypes, active \in BOOLEAN,
        tier \in SUBSCRIPTION_CHOICES}

Catalogues == UNION {[1 .. n -> AIModelRows] : n \in 0 .. MaxModels}

AIIdle ==
    /\ quota = NoQuota
    /\ aiTemplates = <<>>
    /\ aiRequests = <<>>
    /\ proc = [p \in Procs |-> IdleProc]
    /\ started = 0
    /\ providerCalls = 0
    /\ userSaves = 0
    /\ initial = [monthly_ai_calls |-> users[Caller].monthly_ai_calls, quota |-> quota]

InitModel ==
    /\ users = UserRows("starter", 0)
    /\ aiModels \in Catalogues
    /\ AIIdle
    /\ RestIdle
    /\ ModelIdle

\* one call of the service method by a user of the given tier
SelectModel(tier, model_type) ==
    /\ mquery' = [tier |-> tier, model_type |-> model_type]
    /\ mresult' = get_available_model(aiModels, tier, model_type)
    /\ UNCHANGED <<aiVars, initial, restVars>>

NextModel == \E tier \in Tiers, model_type \in ModelTypes : SelectModel(tier, model_type)

SpecModel == InitModel /\ [][NextModel]_vars

TierRank(tier) == CASE tier = "starter" -> 1 [] tier = "business" -> 2 [] tier = "pro" -> 3

\* C10: a model returned by get_available_model is active, has the model
\* type asked for, and has a minimum subscription tier that is not above the
\* tier of the user (starter < business < pro).
C10_ModelWithinTier ==
    (mresult \in DOMAIN aiModels /\ mquery.tier \in SUBSCRIPTION_CHOICES) =>
        /\ aiModels[mresult].is_active
        /\ aiModels[mresult].model_type = mquery.model_type
        /\ TierRank(aiModels[mresult].min_subscription_tier) <= TierRank(mquery.tier)

(***************************************************************************)
(* The REST endpoints of automations, integrations and ai_services that    *)
(* read and write the records of a user.  One request is one step: the     *)
(* handler's reads, its writes and its response.  resp records the         *)
(* response of the last request.                                           *)
(***************************************************************************)
MaxExecutions == 1
MaxLogs == 2

WorkflowIds == {1, 2}
ActionIds == {1}
IntegrationIds == {1, 2}

STATUS_CHOICES == {"active", "paused", "disabled"}

\* a primary key with no row behind it
NoWorkflow == [exists |-> FALSE, user |-> None, status |-> "active",
               use_ai_processing |-> FALSE]
NoAction == [exists |-> FALSE, workflow |-> 0, order |-> 1]
NoExecution == [exists |-> FALSE, workflow |-> 0, status |-> "pending",
                completed_at |-> FALSE]
NoIntegration == [exists |-> FALSE, user |-> None, is_active |-> TRUE]
NoLog == [exists |-> FALSE, integration |-> 0]

\* a request to one app leaves the tables of the other apps alone
InAutomations ==
    /\ app = "automations"
    /\ UNCHANGED <<aiVars, modelVars, integrations, integrationLogs, templates, app>>

InIntegrations ==
    /\ app = "integrations"
    /\ UNCHANGED <<aiVars, modelVars, workflows, actions, executions, templates, app>>

InAIServices ==
    /\ app = "ai_services"
    /\ UNCHANGED <<aiVars, modelVars, workflows, actions, executions, integrations,
                   integrationLogs, templates, app>>

Reply(op, caller, target, sub, status, body) ==
    resp' = [op |-> op, caller |-> caller, target |-> target, sub |-> sub,
             status |-> status, body |-> body]

\* get_object_or_404(AutomationWorkflow, id=workflow_id, user=request.user)
\* and AutomationWorkflow.objects.filter(user=request.user)
OwnedWorkflow_any(c, w) == workflows[w].exists

OwnedWorkflow(c, w) == workflows[w].exists /\ workflows[w].user = c

AutomationWorkflowList(c) ==
    /\ InAutomations
    /\ Reply("workflow-list", c, 0, 0, HTTP_200_OK,
             {w \in WorkflowIds : OwnedWorkflow(c, w)})
    /\ UNCHANGED <<workflows, actions, executions>>

AutomationWorkflowRetrieve(c, w) ==
    /\ InAutomations
    /\ IF OwnedWorkflow(c, w)
       THEN Reply("workflow-retrieve", c, w, 0, HTTP_200_OK, {w})
       ELSE Reply("workflow-retrieve", c, w, 0, HTTP_404_NOT_FOUND, {})
    /\ UNCHANGED <<workflows, actions, executions>>

\* PUT/PATCH workflows/<pk>/: status is a writable field of the detail serializer
AutomationWorkflowUpdate(c, w, status) ==
    /\ InAutomations
    /\ IF OwnedWorkflow(c, w)
       THEN /\ workflows' = [workflows EXCEPT ![w].status = status]
            /\ Reply("workflow-update", c, w, 0, HTTP_200_OK, {w})
       ELSE /\ Reply("workflow-update", c, w, 0, HTTP_404_NOT_FOUND, {})
            /\ UNCHANGED workflows
    /\ UNCHANGED <<actions, executions>>

\* DELETE workflows/<pk>/: actions and executions go with it (on_delete=CASCADE)
AutomationWorkflowDestroy(c, w) ==
    /\ InAutomations
    /\ IF OwnedWorkflow(c, w)
       THEN /\ workflows' = [workflows EXCEPT ![w] = NoWorkflow]
            /\ actions' = [a \in ActionIds |->
                              IF actions[a].workflow = w THEN NoAction ELSE actions[a]]
            /\ executions' = [e \in DOMAIN executions |->
                                 IF executions[e].workflow = w THEN NoExecution
                                 ELSE executions[e]]
            /\ Reply("workflow-delete", c, w, 0, HTTP_204_NO_CONTENT, {})
       ELSE /\ Reply("workflow-delete", c, w, 0, HTTP_404_NOT_FOUND, {})
            /\ UNCHANGED <<workflows, actions, executions>>

Toggled_oneway(status) ==
    CASE status = "active" -> "paused"
      [] OTHER -> "disabled"

\* the status toggle_workflow_status stores for the status it read
Toggled(status) ==
    CASE status = "active" -> "paused"
      [] status = "paused" -> "active"
      [] OTHER -> status

toggle_workflow_status(c, w) ==
    /\ InAutomations
    /\ IF ~OwnedWorkflow(c, w)
       THEN /\ Reply("toggle", c, w, 0, HTTP_404_NOT_FOUND, {})
            /\ UNCHANGED workflows
       ELSE IF workflows[w].status \in {"active", "paused"}
       THEN /\ workflows' = [workflows EXCEPT ![w].status = Toggled(workflows[w].status)]
            /\ Reply("toggle", c, w, 0, HTTP_200_OK, {})
       ELSE /\ Reply("toggle", c, w, 0, HTTP_400_BAD_REQUEST, {})
            /\ UNCHANGED workflows
    /\ UNCHANGED <<actions, executions>>

NewExecution_running(w) ==
    [exists |-> TRUE, workflow |-> w, status |-> "running", completed_at |-> FALSE]

\* WorkflowExecution.objects.create(workflow=workflow, ..., status='pending')
NewExecution(w) ==
    [exists |-> TRUE, workflow |-> w, status |-> "pending", completed_at |-> FALSE]

\* WorkflowExecution.is_completed
is_completed(execution) ==
    execution.status \in {"completed", "failed", "cancelled", "timeout"}

ExecuteStatus_limit_first(owned, status, use_ai, allowed) ==
    IF ~owned THEN HTTP_404_NOT_FOUND
    ELSE IF use_ai /\ ~allowed THEN HTTP_402_PAYMENT_REQUIRED
    ELSE IF status # "active" THEN HTTP_400_BAD_REQUEST
    ELSE HTTP_202_ACCEPTED

\* the checks of execute_workflow_manually, in the order the view makes them
ExecuteStatus(owned, status, use_ai, allowed) ==
    IF ~owned THEN HTTP_404_NOT_FOUND
    ELSE IF status # "active" THEN HTTP_400_BAD_REQUEST
    ELSE IF use_ai /\ ~allowed THEN HTTP_402_PAYMENT_REQUIRED
    ELSE HTTP_202_ACCEPTED

execute_workflow_manually(c, w) ==
    LET answer == ExecuteStatus(OwnedWorkflow(c, w), workflows[w].status,
                                workflows[w].use_ai_processing,
                                can_use_ai(users[c].subscription_tier,
                                           users[c].monthly_ai_calls))
    IN  /\ InAutomations
        /\ Len(executions) < MaxExecutions
        /\ IF answer = HTTP_202_ACCEPTED
           THEN executions' = Append(executions, NewExecution(w))
           ELSE UNCHANGED executions
        /\ Reply("execute", c, w, 0, answer, {})
        /\ UNCHANGED <<workflows, actions>>

\* workflow.actions.all() behind get_object_or_404 of the workflow
WorkflowActions(c, w) ==
    {a \in ActionIds : /\ OwnedWorkflow(c, w)
                       /\ actions[a].exists
                       /\ actions[a].workflow = w}

AutomationActionList(c, w) ==
    /\ InAutomations
    /\ IF OwnedWorkflow(c, w)
       THEN Reply("action-list", c, w, 0, HTTP_200_OK, WorkflowActions(c, w))
       ELSE Reply("action-list", c, w, 0, HTTP_404_NOT_FOUND, {})
    /\ UNCHANGED <<workflows, actions, executions>>

\* POST workflows/<id>/actions/: perform_create looks the workflow up
AutomationActionCreate(c, w) ==
    /\ InAutomations
    /\ IF OwnedWorkflow(c, w)
       THEN \E a \in ActionIds :
               /\ ~actions[a].exists
               /\ actions' = [actions EXCEPT ![a] =
                                 [exists |-> TRUE, workflow |-> w, order |-> 1]]
               /\ Reply("action-create", c, w, a, HTTP_201_CREATED, {a})
       ELSE /\ Reply("action-create", c, w, 0, HTTP_404_NOT_FOUND, {})
            /\ UNCHANGED actions
    /\ UNCHANGED <<workflows, executions>>

AutomationActionRetrieve(c, w, a) ==
    /\ InAutomations
    /\ IF a \in WorkflowActions(c, w)
       THEN Reply("action-retrieve", c, w, a, HTTP_200_OK, {a})
       ELSE Reply("action-retrieve", c, w, a, HTTP_404_NOT_FOUND, {})
    /\ UNCHANGED <<workflows, actions, executions>>

AutomationActionUpdate(c, w, a, order) ==
    /\ InAutomations
    /\ IF a \in WorkflowActions(c, w)
       THEN /\ actions' = [actions EXCEPT ![a].order = order]
            /\ Reply("action-update", c, w, a, HTTP_200_OK, {a})
       ELSE /\ Reply("action-update", c, w, a, HTTP_404_NOT_FOUND, {})
            /\ UNCHANGED actions
    /\ UNCHANGED <<workflows, executions>>

AutomationActionDestroy(c, w, a) ==
    /\ InAutomations
    /\ IF a \in WorkflowActions(c, w)
       THEN /\ actions' = [actions EXCEPT ![a] = NoAction]
            /\ Reply("action-delete", c, w, a, HTTP_204_NO_CONTENT, {})
       ELSE /\ Reply("action-delete", c, w, a, HTTP_404_NOT_FOUND, {})
            /\ UNCHANGED actions
    /\ UNCHANGED <<workflows, executions>>

\* WorkflowExecution.objects.filter(workflow__user=request.user)
UserExecutions(c) ==
    {e \in DOMAIN executions : /\ executions[e].exists
                               /\ workflows[executions[e].workflow].user = c}

ExecutionIds == 1 .. MaxExecutions

WorkflowExecutionList(c) ==
    /\ InAutomations
    /\ Reply("execution-list", c, 0, 0, HTTP_200_OK, UserExecutions(c))
    /\ UNCHANGED <<workflows, actions, executions>>

WorkflowExecutionRetrieve(c, e) ==
    /\ InAutomations
    /\ IF e \in UserExecutions(c)
       THEN Reply("execution-retrieve", c, e, 0, HTTP_200_OK, {e})
       ELSE Reply("execution-retrieve", c, e, 0, HTTP_404_NOT_FOUND, {})
    /\ UNCHANGED <<workflows, actions, executions>>

(***************************************************************************)
(* integrations/views.py                                                   *)
(***************************************************************************)
\* get_object_or_404(Integration, id=integration_id, user=request.user)
\* and Integration.objects.filter(user=request.user)
OwnedIntegration(c, i) == integrations[i].exists /\ integrations[i].user = c

IntegrationList(c) ==
    /\ InIntegrations
    /\ Reply("integration-list", c, 0, 0, HTTP_200_OK,
             {i \in IntegrationIds : OwnedIntegration(c, i)})
    /\ UNCHANGED <<integrations, integrationLogs>>

IntegrationRetrieve(c, i) ==
    /\ InIntegrations
    /\ IF OwnedIntegration(c, i)
       THEN Reply("integration-retrieve", c, i, 0, HTTP_200_OK, {i})
       ELSE Reply("integration-retrieve", c, i, 0, HTTP_404_NOT_FOUND, {})
    /\ UNCHANGED <<integrations, integrationLogs>>

IntegrationUpdate(c, i, is_active) ==
    /\ InIntegrations
    /\ IF OwnedIntegration(c, i)
       THEN /\ integrations' = [integrations EXCEPT ![i].is_active = is_active]
            /\ Reply("integration-update", c, i, 0, HTTP_200_OK, {i})
       ELSE /\ Reply("integration-update", c, i, 0, HTTP_404_NOT_FOUND, {})
            /\ UNCHANGED integrations
    /\ UNCHANGED integrationLogs

\* DELETE: the logs go with the integration (on_delete=CASCADE)
IntegrationDestroy(c, i) ==
    /\ InIntegrations
    /\ IF OwnedIntegration(c, i)
       THEN /\ integrations' = [integrations EXCEPT ![i] = NoIntegration]
            /\ integrationLogs' = [l \in DOMAIN integrationLogs |->
                                      IF integrationLogs[l].integration = i THEN NoLog
                                      ELSE integrationLogs[l]]
            /\ Reply("integration-delete", c, i, 0, HTTP_204_NO_CONTENT, {})
       ELSE /\ Reply("integration-delete", c, i, 0, HTTP_404_NOT_FOUND, {})
            /\ UNCHANGED <<integrations, integrationLogs>>

\* the lookup comes before the validation of the payload
test_integration(c, i, valid) ==
    /\ InIntegrations
    /\ Len(integrationLogs) < MaxLogs
    /\ IF ~OwnedIntegration(c, i)
       THEN /\ Reply("integration-test", c, i, 0, HTTP_404_NOT_FOUND, {})
            /\ UNCHANGED integrationLogs
       ELSE IF ~valid
       THEN /\ Reply("integration-test", c, i, 0, HTTP_400_BAD_REQUEST, {})
            /\ UNCHANGED integrationLogs
       ELSE /\ integrationLogs' = Append(integrationLogs,
                                         [exists |-> TRUE, integration |-> i])
            /\ Reply("integration-test", c, i, 0, HTTP_200_OK, {})
    /\ UNCHANGED integrations

\* IntegrationLog.objects.filter(integration__user=request.user)
UserLogs(c) ==
    {l \in DOMAIN integrationLogs :
        /\ integrationLogs[l].exists
        /\ integrations[integrationLogs[l].integration].user = c}

IntegrationLogList(c) ==
    /\ InIntegrations
    /\ Reply("log-list", c, 0, 0, HTTP_200_OK, UserLogs(c))
    /\ UNCHANGED <<integrations, integrationLogs>>

(***************************************************************************)
(* ai_services/views.py: AIRequestListView, AIRequestDetailView            *)
(***************************************************************************)
\* AIRequest.objects.filter(user=request.user)
RequestIds == {1, 2}

UserRequests(c) == {r \in DOMAIN aiRequests : aiRequests[r].user = c}

AIRequestList(c) ==
    /\ InAIServices
    /\ Reply("request-list", c, 0, 0, HTTP_200_OK, UserRequests(c))

AIRequestRetrieve(c, r) ==
    /\ InAIServices
    /\ IF r \in UserRequests(c)
       THEN Reply("request-retrieve", c, r, 0, HTTP_200_OK, {r})
       ELSE Reply("request-retrieve", c, r, 0, HTTP_404_NOT_FOUND, {})

(***************************************************************************)
(* The REST system: two users, each with a workflow and an integration of  *)
(* their own and an AI request on record.  The three apps share no table,  *)
(* so a behaviour exercises the endpoints of one app.                      *)
(***************************************************************************)
Apps == {"automations", "integrations", "ai_services"}
Other == "u2"

InitRest ==
    /\ \E n \in {StarterLimit - 1, StarterLimit} : users = UserRows("starter", n)
    /\ aiModels = <<AIModelRow("openai/gpt-4o", "chat", TRUE, "starter")>>
    /\ quota = NoQuota
    /\ aiTemplates = <<>>
    /\ aiRequests = <<[NewAIRequest("email_to_task", 1) EXCEPT
                          !.status = "completed", !.completed_at = TRUE],
                      [NewAIRequest("content_generation", 1) EXCEPT
                          !.user = Other, !.status = "failed", !.completed_at = TRUE]>>
    /\ proc = [p \in Procs |-> IdleProc]
    /\ started = 0
    /\ providerCalls = 0
    /\ userSaves = 0
    /\ initial = [monthly_ai_calls |-> users[Caller].monthly_ai_calls, quota |-> quota]
    /\ ModelIdle
    /\ app \in Apps
    /\ \E use_ai \in BOOLEAN :
         workflows = [w \in WorkflowIds |->
                         IF w = 1
                         THEN [exists |-> TRUE, user |-> Caller, status |-> "active",
                               use_ai_processing |-> use_ai]
                         ELSE [exists |-> TRUE, user |-> Other, status |-> "active",
                               use_ai_processing |-> FALSE]]
    /\ actions = [a \in ActionIds |-> NoAction]
    /\ executions = <<>>
    /\ integrations = [i \in IntegrationIds |->
                          [exists |-> TRUE, user |-> IF i = 1 THEN Caller ELSE Other,
                           is_active |-> TRUE]]
    /\ integrationLogs = <<>>
    /\ templates = <<>>
    /\ resp = NoResponse

NextRest ==
    \E c \in Users :
        \/ AutomationWorkflowList(c)
        \/ \E w \in WorkflowIds : AutomationWorkflowRetrieve(c, w)
        \/ \E w \in WorkflowIds, status \in STATUS_CHOICES :
              AutomationWorkflowUpdate(c, w, status)
        \/ \E w \in WorkflowIds : AutomationWorkflowDestroy(c, w)
        \/ \E w \in WorkflowIds : toggle_workflow_status(c, w)
        \/ \E w \in WorkflowIds : execute_workflow_manually(c, w)
        \/ \E w \in WorkflowIds : AutomationActionList(c, w)
        \/ \E w \in WorkflowIds : AutomationActionCreate(c, w)
        \/ \E w \in WorkflowIds, a \in ActionIds : AutomationActionRetrieve(c, w, a)
        \/ \E w \in WorkflowIds, a \in ActionIds, order \in {1, 2} :
              AutomationActionUpdate(c, w, a, order)
        \/ \E w \in WorkflowIds, a \in ActionIds : AutomationActionDestroy(c, w, a)
        \/ WorkflowExecutionList(c)
        \/ \E e \in ExecutionIds : WorkflowExecutionRetrieve(c, e)
        \/ IntegrationList(c)
        \/ \E i \in IntegrationIds : IntegrationRetrieve(c, i)
        \/ \E i \in IntegrationIds, is_active \in BOOLEAN : IntegrationUpdate(c, i, is_active)
        \/ \E i \in IntegrationIds : IntegrationDestroy(c, i)
        \/ \E i \in IntegrationIds, valid \in BOOLEAN : test_integration(c, i, valid)
        \/ IntegrationLogList(c)
        \/ AIRequestList(c)
        \/ \E r \in RequestIds : AIRequestRetrieve(c, r)

SpecRest == InitRest /\ [][NextRest]_vars

WasOwner(c, w) == workflows[w].exists /\ workflows[w].user = c

C6_Step ==
    resp'.op = "execute" =>
        LET c == resp'.caller
            w == resp'.target
            owned == WasOwner(c, w)
            active == workflows[w].status = "active"
            allowed == \/ ~workflows[w].use_ai_processing
                       \/ users[c].monthly_ai_calls < C8_Limit(users[c].subscription_tier)
            ok == owned /\ active /\ allowed
        IN  /\ ok <=> resp'.status = 202
            /\ ok => executions' = Append(executions,
                                          [exists |-> TRUE, workflow |-> w,
                                           status |-> "pending", completed_at |-> FALSE])
            /\ ~ok => /\ executions' = executions
                      /\ resp'.status = IF ~owned THEN 404
                                        ELSE IF ~active THEN 400
                                        ELSE 402

\* C6: execute_workflow_manually answers 202 and creates exactly one pending
\* execution linked to the workflow exactly when the caller owns the
\* workflow, its status is 'active' and it either does not use AI processing
\* or the caller may still use AI; otherwise it creates nothing and answers
\* 404 (not the caller's), 400 (not active) or 402 (AI limit), the check on
\* the status coming before the check on the AI limit.
C6_ExecuteAdmission == [][C6_Step]_vars

\* a request was accepted and its execution row is there
C6_Witness ==
    /\ resp.op = "execute"
    /\ resp.status = 202
    /\ workflows[resp.target].user = resp.caller
    /\ \E e \in DOMAIN executions :
          executions[e].exists /\ executions[e].workflow = resp.target

C7_Step ==
    (resp'.op = "toggle" /\ WasOwner(resp'.caller, resp'.target)) =>
        LET w == resp'.target
            old == workflows[w].status
            new == workflows'[w].status
        IN  /\ old = "active" => new = "paused" /\ resp'.status = 200
            /\ old = "paused" => new = "active" /\ resp'.status = 200
            /\ old = "disabled" => resp'.status = 400 /\ workflows' = workflows
            /\ new = "disabled" => old = "disabled"
            /\ \A s \in {"active", "paused"} : Toggled(Toggled(s)) = s

\* C7: toggle_workflow_status stores 'paused' for an 'active' workflow and
\* 'active' for a 'paused' one, so that two toggles in succession restore
\* the status; a 'disabled' workflow is answered 400 and left as it is, and
\* no toggle produces 'disabled'.
C7_ToggleExchanges == [][C7_Step]_vars

\* a workflow toggled back to 'active'
C7_Witness ==
    /\ resp.op = "toggle"
    /\ resp.status = 200
    /\ workflows[resp.target].status = "active"
    /\ workflows[resp.target].user = resp.caller

\* the endpoints whose URL names a workflow, an action, an integration
WorkflowOps == {"workflow-retrieve", "workflow-update", "workflow-delete", "toggle",
                "execute", "action-list", "action-create", "action-retrieve",
                "action-update", "action-delete"}
ActionOps == {"action-list", "action-create", "action-retrieve", "action-update",
              "action-delete"}
IntegrationOps == {"integration-retrieve", "integration-update", "integration-delete",
                   "integration-test"}

\* the records of each kind that belong to user c, before and after the step
OwnWorkflows(c) == {w \in WorkflowIds : workflows[w].exists /\ workflows[w].user = c}
OwnWorkflowsAfter(c) == {w \in WorkflowIds : workflows'[w].exists /\ workflows'[w].user = c}
OwnActions(c) ==
    {a \in ActionIds : actions[a].exists /\ actions[a].workflow \in OwnWorkflows(c)}
OwnActionsAfter(c) ==
    {a \in ActionIds : actions'[a].exists /\ actions'[a].workflow \in OwnWorkflowsAfter(c)}
OwnExecutions(c) ==
    {e \in DOMAIN executions :
        executions[e].exists /\ executions[e].workflow \in OwnWorkflows(c)}
OwnIntegrations(c) ==
    {i \in IntegrationIds : integrations[i].exists /\ integrations[i].user = c}
OwnLogs(c) ==
    {l \in DOMAIN integrationLogs :
        integrationLogs[l].exists /\ integrationLogs[l].integration \in OwnIntegrations(c)}
OwnRequests(c) == {r \in DOMAIN aiRequests : aiRequests[r].user = c}

\* the records of the other users are as they were, and no record is added to them
C9_OthersUntouched(c) ==
    /\ \A w \in WorkflowIds : w \notin OwnWorkflows(c) => workflows'[w] = workflows[w]
    /\ \A a \in ActionIds :
          a \notin OwnActions(c) => (actions'[a] = actions[a] \/ a \in OwnActionsAfter(c))
    /\ \A e \in DOMAIN executions : e \notin OwnExecutions(c) => executions'[e] = executions[e]
    /\ \A e \in DOMAIN executions' \ DOMAIN executions :
          executions'[e].workflow \in OwnWorkflows(c)
    /\ \A i \in IntegrationIds : i \notin OwnIntegrations(c) => integrations'[i] = integrations[i]
    /\ \A l \in DOMAIN integrationLogs :
          l \notin OwnLogs(c) => integrationLogs'[l] = integrationLogs[l]
    /\ \A l \in DOMAIN integrationLogs' \ DOMAIN integrationLogs :
          integrationLogs'[l].integration \in OwnIntegrations(c)
    /\ aiRequests' = aiRequests
    /\ users' = users

\* the records a response carries are the caller's
C9_OwnBody(c) ==
    LET op == resp'.op
    IN  /\ op \in {"workflow-list", "workflow-retrieve", "workflow-update"} =>
              resp'.body \subseteq OwnWorkflowsAfter(c)
        /\ op \in ActionOps => resp'.body \subseteq OwnActionsAfter(c)
        /\ op \in {"execution-list", "execution-retrieve"} =>
              resp'.body \subseteq OwnExecutions(c)
        /\ op \in {"integration-list", "integration-retrieve", "integration-update"} =>
              resp'.body \subseteq OwnIntegrations(c)
        /\ op = "log-list" => resp'.body \subseteq OwnLogs(c)
        /\ op \in {"request-list", "request-retrieve"} => resp'.body \subseteq OwnRequests(c)

\* the request names a record that exists and belongs to somebody else
C9_NamesForeign(c) ==
    LET op == resp'.op
        t == resp'.target
    IN  \/ op \in WorkflowOps /\ workflows[t].exists /\ t \notin OwnWorkflows(c)
        \/ /\ op \in {"action-retrieve", "action-update", "action-delete"}
           /\ actions[resp'.sub].exists /\ resp'.sub \notin OwnActions(c)
        \/ /\ op = "execution-retrieve" /\ t \in DOMAIN executions
           /\ executions[t].exists /\ t \notin OwnExecutions(c)
        \/ op \in IntegrationOps /\ integrations[t].exists /\ t \notin OwnIntegrations(c)
        \/ op = "request-retrieve" /\ t \notin OwnRequests(c)

C9_Step ==
    LET c == resp'.caller
    IN  /\ C9_OthersUntouched(c)
        /\ C9_OwnBody(c)
        /\ C9_NamesForeign(c) =>
              /\ resp'.status = 404
              /\ resp'.body = {}
              /\ UNCHANGED <<users, aiRequests, workflows, actions, executions,
                             integrations, integrationLogs>>

\* C9: a request to a list, retrieve, update, delete, toggle, execute or test
\* endpoint of workflows, workflow actions, executions, integrations,
\* integration logs and AI requests returns and changes only records of the
\* requesting user, and one that names a record of another user is answered
\* 404 and changes nothing.
C9_TenantIsolation == [][C9_Step]_vars

\* the owner of workflow 1 asked to update the other user's workflow
C9_Witness ==
    /\ resp.op = "workflow-update"
    /\ resp.caller = Caller
    /\ resp.status = 404
    /\ workflows[resp.target].exists
    /\ workflows[resp.target].user = Other

(***************************************************************************)
(* ai_services/views.py: AIModelListView, over catalogues of AIModel rows  *)
(* and users of every tier.                                                *)
(***************************************************************************)
\* a queryset that drops the is_active filter
AvailableModels_with_inactive(models, tier) ==
    {i \in DOMAIN models :
        /\ tier = "starter" => models[i].min_subscription_tier = "starter"
        /\ tier = "business" => models[i].min_subscription_tier \in {"starter", "business"}}

\* AIModelListView.get_queryset
AvailableModels(models, tier) ==
    {i \in DOMAIN models :
        /\ models[i].is_active
        /\ tier = "starter" => models[i].min_subscription_tier = "starter"
        /\ tier = "business" => models[i].min_subscription_tier \in {"starter", "business"}}

AIModelList(c) ==
    /\ Reply("model-list", c, 0, 0, HTTP_200_OK,
             AvailableModels(aiModels, users[c].subscription_tier))
    /\ UNCHANGED <<aiVars, modelVars, workflows, actions, executions, integrations,
                   integrationLogs, templates, app>>

ListedRows ==
    {AIModelRow("openai/gpt-4o", type, active, tier) :
        type \in ModelTypes, active \in BOOLEAN, tier \in SUBSCRIPTION_CHOICES}

ListedCatalogues == UNION {[1 .. n -> ListedRows] : n \in 0 .. MaxModels}

InitModelList ==
    /\ \E tier \in Tiers : users = UserRows(tier, 0)
    /\ aiModels \in ListedCatalogues
    /\ AIIdle
    /\ RestIdle
    /\ ModelIdle

NextModelList == \E c \in Users : AIModelList(c)

SpecModelList == InitModelList /\ [][NextModelList]_vars

\* C11: the list of AI models a user gets holds exactly the active models
\* whose min_subscription_tier is 'starter' for a starter user, exactly the
\* active models whose min_subscription_tier is 'starter' or 'business' for
\* a business user, and exactly the active models for a pro user; an
\* inactive model is never in it.
C11_ModelsForTier ==
    resp.op = "model-list" =>
        LET tier == users[resp.caller].subscription_tier
            active == {i \in DOMAIN aiModels : aiModels[i].is_active}
        IN  /\ resp.body \subseteq active
            /\ tier = "starter" =>
                  resp.body = {i \in active : aiModels[i].min_subscription_tier = "starter"}
            /\ tier = "business" =>
                  resp.body = {i \in active : aiModels[i].min_subscription_tier # "pro"}
            /\ tier = "pro" => resp.body = active

\* a business user is shown one model while an active pro model is held back
C11_Witness ==
    /\ resp.op = "model-list"
    /\ users[resp.caller].subscription_tier = "business"
    /\ resp.body # {}
    /\ \E i \in DOMAIN aiModels : aiModels[i].is_active /\ i \notin resp.body

(***************************************************************************)
(* Templates: AutomationTemplate list, detail and                          *)
(* create_workflow_from_template (automations), AITemplate list and detail *)
(* and custom_ai_request (ai_services).                                    *)
(***************************************************************************)
MaxWorkflows == 2
MaxEntries == 2

\* an unhandled exception leaves the view
HTTP_500_INTERNAL_SERVER_ERROR == 500

\* entries of workflow_config['actions'] as the view reads them:
\* .get('name', ''), .get('action_type'), .get('order', 0)
ActionEntries ==
    {[name |-> "notify", action_type |-> "send_email", order |-> 1],
     [name |-> "follow up", action_type |-> "create_task", order |-> 2],
     [name |-> "", action_type |-> None, order |-> 0]}

EntryLists == UNION {[1 .. n -> ActionEntries] : n \in 0 .. MaxEntries}

AutomationTemplateRow(is_premium, entries) ==
    [is_premium |-> is_premium, actions |-> entries, usage_count |-> 0]

\* AutomationTemplateListView / AutomationTemplateDetailView .get_queryset
VisibleTemplates(c) ==
    {t \in DOMAIN templates :
        users[c].subscription_tier = "starter" => ~templates[t].is_premium}

AutomationTemplateList(c) ==
    /\ app = "automations"
    /\ Reply("template-list", c, 0, 0, HTTP_200_OK, VisibleTemplates(c))
    /\ UNCHANGED <<aiVars, modelVars, workflows, actions, executions, integrations,
                   integrationLogs, templates, app>>

AutomationTemplateRetrieve(c, t) ==
    /\ app = "automations"
    /\ IF t \in VisibleTemplates(c)
       THEN Reply("template-retrieve", c, t, 0, HTTP_200_OK, {t})
       ELSE Reply("template-retrieve", c, t, 0, HTTP_404_NOT_FOUND, {})
    /\ UNCHANGED <<aiVars, modelVars, workflows, actions, executions, integrations,
                   integrationLogs, templates, app>>

\* a validation that lets every stored template through
validate_automation_template_id_any(template_id, tier) ==
    template_id \in DOMAIN templates

\* CreateWorkflowFromTemplateSerializer.validate_template_id
validate_automation_template_id(template_id, tier) ==
    /\ template_id \in DOMAIN templates
    /\ ~(templates[template_id].is_premium /\ tier = "starter")

\* the entries AutomationAction.objects.create accepts before the first one it
\* refuses: action_type is not nullable, so an entry without it raises
RECURSIVE Accepted(_)
Accepted(entries) ==
    IF entries = <<>> \/ Head(entries).action_type = None THEN <<>>
    ELSE <<Head(entries)>> \o Accepted(Tail(entries))

\* The view: validation, the workflow, its actions in the order of the
\* entries, increment_usage, the response.  Nothing is rolled back when a
\* create raises.
create_workflow_from_template(c, t) ==
    /\ app = "automations"
    /\ Len(workflows) < MaxWorkflows
    /\ IF ~validate_automation_template_id(t, users[c].subscription_tier)
       THEN /\ Reply("create-from-template", c, t, 0, HTTP_400_BAD_REQUEST, {})
            /\ UNCHANGED <<workflows, actions, templates>>
       ELSE LET w == Len(workflows) + 1
                entries == templates[t].actions
                made == Accepted(entries)
                rows == [k \in 1 .. Len(made) |->
                            [exists |-> TRUE, workflow |-> w, name |-> made[k].name,
                             action_type |-> made[k].action_type,
                             order |-> made[k].order]]
            IN  /\ workflows' = Append(workflows,
                                       [exists |-> TRUE, user |-> c, status |-> "active",
                                        use_ai_processing |-> TRUE, template |-> t])
                /\ actions' = actions \o rows
                /\ IF Len(made) = Len(entries)
                   THEN /\ templates' = [templates EXCEPT ![t].usage_count = @ + 1]
                        /\ Reply("create-from-template", c, t, w, HTTP_201_CREATED, {w})
                   ELSE /\ UNCHANGED templates
                        /\ Reply("create-from-template", c, t, w,
                                 HTTP_500_INTERNAL_SERVER_ERROR, {})
    /\ UNCHANGED <<aiVars, modelVars, executions, integrations, integrationLogs, app>>

\* AITemplateListView / AITemplateDetailView .get_queryset
VisibleAITemplates(c) ==
    {t \in DOMAIN aiTemplates :
        /\ aiTemplates[t].is_active
        /\ users[c].subscription_tier = "starter" => ~aiTemplates[t].is_premium}

AITemplateList(c) ==
    /\ app = "ai_templates"
    /\ Reply("ai-template-list", c, 0, 0, HTTP_200_OK, VisibleAITemplates(c))
    /\ UNCHANGED <<aiVars, modelVars, workflows, actions, executions, integrations,
                   integrationLogs, templates, app>>

AITemplateRetrieve(c, t) ==
    /\ app = "ai_templates"
    /\ IF t \in VisibleAITemplates(c)
       THEN Reply("ai-template-retrieve", c, t, 0, HTTP_200_OK, {t})
       ELSE Reply("ai-template-retrieve", c, t, 0, HTTP_404_NOT_FOUND, {})
    /\ UNCHANGED <<aiVars, modelVars, workflows, actions, executions, integrations,
                   integrationLogs, templates, app>>

InitTemplates ==
    /\ \E tier \in {"starter", "business"} : users = UserRows(tier, 0)
    /\ quota = NoQuota
    /\ aiModels = <<AIModelRow("openai/gpt-4o", "chat", TRUE, "starter")>>
    /\ aiTemplates = <<[is_active |-> TRUE, is_premium |-> FALSE, usage_count |-> 0],
                       [is_active |-> TRUE, is_premium |-> TRUE, usage_count |-> 0]>>
    /\ aiRequests = <<>>
    /\ proc = [p \in Procs |-> IdleProc]
    /\ started = 0
    /\ providerCalls = 0
    /\ userSaves = 0
    /\ initial = [monthly_ai_calls |-> users[Caller].monthly_ai_calls, quota |-> quota]
    /\ ModelIdle
    /\ workflows = <<>>
    /\ actions = <<>>
    /\ executions = <<>>
    /\ integrations = <<>>
    /\ integrationLogs = <<>>
    /\ \E entries \in EntryLists :
          templates = <<AutomationTemplateRow(FALSE, entries),
                        AutomationTemplateRow(TRUE, <<CHOOSE e \in ActionEntries :
                                                          e.order = 1>>)>>
    /\ app \in {"automations", "ai_templates", "custom_ai_request"}
    /\ resp = NoResponse

\* The template views only read what no endpoint writes (is_active,
\* is_premium), and automations and ai_services share no table: a behaviour
\* exercises the automations endpoints, the AITemplate views, or
\* custom_ai_request.
NextTemplates ==
    \/ \E c \in Users : AutomationTemplateList(c)
    \/ \E c \in Users, t \in 1 .. 3 : AutomationTemplateRetrieve(c, t)
    \/ \E c \in Users, t \in 1 .. 3 : create_workflow_from_template(c, t)
    \/ \E c \in Users : AITemplateList(c)
    \/ \E c \in Users, t \in 1 .. 3 : AITemplateRetrieve(c, t)
    \/ \E p \in Procs, t \in 1 .. 3 : app = "custom_ai_request" /\ custom_ai_request(p, t)
    \/ \E p \in Procs, f \in BOOLEAN : CustomCreate(p, f)
    \/ \E p \in Procs : CustomIncrement(p)

SpecTemplates == InitTemplates /\ [][NextTemplates]_vars

(***************************************************************************)
(* Properties of the template endpoints                                    *)
(***************************************************************************)
IsStarter(c) == c \in Users /\ users[c].subscription_tier = "starter"
PremiumTemplate(t) == t \in DOMAIN templates /\ templates[t].is_premium
PremiumAITemplate(t) == t \in DOMAIN aiTemplates /\ aiTemplates[t].is_premium

C12_Step ==
    LET c == resp'.caller
        op == resp'.op
        t == resp'.target
    IN  /\ (IsStarter(c) /\ op = "template-list") =>
              \A b \in resp'.body : ~PremiumTemplate(b)
        /\ (IsStarter(c) /\ op = "ai-template-list") =>
              \A b \in resp'.body : ~PremiumAITemplate(b)
        /\ (IsStarter(c) /\ op = "template-retrieve" /\ PremiumTemplate(t)) =>
              resp'.status = 404 /\ resp'.body = {}
        /\ (IsStarter(c) /\ op = "ai-template-retrieve" /\ PremiumAITemplate(t)) =>
              resp'.status = 404 /\ resp'.body = {}
        /\ (IsStarter(c) /\ op = "create-from-template" /\ PremiumTemplate(t)) =>
              /\ resp'.status = 400
              /\ UNCHANGED <<workflows, actions, templates>>
        /\ \A p \in Procs :
              (/\ proc'[p] # proc[p]
               /\ IsStarter(Caller)
               /\ proc'[p].kind = "custom"
               /\ PremiumAITemplate(proc'[p].template)) =>
                  /\ proc'[p].pc = "done"
                  /\ proc'[p].status = 400
                  /\ proc'[p].request = 0
                  /\ UNCHANGED <<aiRequests, aiTemplates>>

\* C12: a starter user is never shown a premium template by the list and
\* detail views of AutomationTemplate and AITemplate (a detail request for
\* one is answered 404), and create_workflow_from_template and
\* custom_ai_request naming a premium template answer a starter user with a
\* validation error (400), create no workflow, action or AIRequest and leave
\* the usage_count of the template as it was.
C12_PremiumNeedsUpgrade == [][C12_Step]_vars

\* a starter user asked for a workflow from the premium template and was refused
C12_Witness ==
    /\ resp.op = "create-from-template"
    /\ IsStarter(resp.caller)
    /\ PremiumTemplate(resp.target)
    /\ resp.status = 400

\* the actions of workflow w, in the order they were created
ActionsOf(w) ==
    LET Mine(a) == a.workflow = w
    IN  SelectSeq(actions, Mine)

\* C13: create_workflow_from_template, for a template the caller may use,
\* creates one workflow owned by the caller with status 'active', one
\* AutomationAction for each entry of the template's 'actions' list with the
\* entry's name, type and order, and adds exactly 1 to the template's
\* usage_count: every workflow made from a template has the template's
\* actions, and a template's usage_count is the number of workflows made
\* from it.
C13_TemplateInstantiation ==
    /\ \A w \in DOMAIN workflows :
          LET entries == templates[workflows[w].template].actions
              made == ActionsOf(w)
          IN  /\ workflows[w].status = "active"
              /\ Len(made) = Len(entries)
              /\ \A k \in 1 .. Len(made) :
                    /\ made[k].name = entries[k].name
                    /\ made[k].action_type = entries[k].action_type
                    /\ made[k].order = entries[k].order
    /\ \A t \in DOMAIN templates :
          templates[t].usage_count =
              Cardinality({w \in DOMAIN workflows : workflows[w].template = t})
    /\ (/\ resp.op = "create-from-template"
        /\ validate_automation_template_id(resp.target, users[resp.caller].subscription_tier))
          => /\ resp.status = 201
             /\ workflows[resp.sub].user = resp.caller

\* C14: every AIRequest made by email_to_task, generate_social_content or
\* custom_ai_request has status 'completed' or 'failed' and its completed_at
\* set once the endpoint has answered; none is left 'processing' or 'pending'.
C14_RequestsReachFinalStatus ==
    \A p \in Procs :
        (/\ proc[p].pc = "done"
         /\ proc[p].kind \in {"email_to_task", "content_generation", "custom"}
         /\ proc[p].request # 0) =>
            /\ aiRequests[proc[p].request].status \in {"completed", "failed"}
            /\ aiRequests[proc[p].request].completed_at
====
